---- MODULE Spec2Model ----
(***************************************************************************)
(* Model of rand_core::impls: the helpers that derive one of next_u32,     *)
(* next_u64 and fill_bytes from another.                                   *)
(*                                                                         *)
(* TLC integers are 32 bits wide and signed, so a machine word cannot be   *)
(* held as one integer.  A word is held as the sequence of its base-65536  *)
(* digits, least significant digit first: a u32 is <<d0, d1>> with value   *)
(* d0 + 65536*d1, a u64 is <<d0, d1, d2, d3>>.  A byte is 0..255.          *)
(***************************************************************************)
EXTENDS Integers, Sequences, FiniteSets, TLC

\* ---- bounds of the model ------------------------------------------------
MaxSrc == 3       \* longest source slice / block, in words
MaxDest == 17     \* longest destination buffer, in bytes
TapeLen == 3      \* period of the generator's output stream
MaxBlock == 2     \* block fill loop: longest block, in words
MaxBlockDest == 9 \* block fill loop: longest destination buffer, in bytes

\* ---- values the inputs are drawn from -------------------------------------
DestVals == { 170 }       \* content of the destination before a call (0xAA)
U32Vals == { <<1, 0>>, <<513, 34819>> }                       \* 1, 0x88030201
U64Vals == { <<1, 0, 0, 0>>, <<513, 34819, 1541, 2055>> }     \* 1, 0x0807060588030201

BSeq(S, n) == UNION { [1..k -> S] : k \in 0..n }

VARIABLES
  pc,         \* "start" before the call, "loop" inside the block fill loop, "done"
  op,         \* the helper that was called
  bigEndian,  \* cfg(target_endian = "big") of the build
  tape,       \* the generator: the 64-bit outputs it cycles through
  rng,        \* the generator's state: number of outputs produced so far
  calls,      \* the RngCore methods the helper called, in order
  src,        \* the source word slice (block of a block RNG)
  dest0,      \* the destination before the call
  dest,       \* the destination
  writes,     \* writes[i]: how many times byte i of dest was stored
  reads,      \* indices (0-based) of the source elements that were read
  ret,        \* the value the helper returned
  panicked,   \* a slice operation panicked
  rsl,        \* block RNG: the block of generated words (self.rsl)
  index,      \* block RNG: read cursor into the block (self.index)
  read_len,   \* block RNG: bytes of dest filled so far
  hist        \* block RNG: words generated so far, start cursor, results of the calls

vars == <<pc, op, bigEndian, tape, rng, calls, src, dest0, dest, writes, reads,
          ret, panicked, rsl, index, read_len, hist>>

Min(a, b) == IF a < b THEN a ELSE b

\* ---- integer <-> byte conversions (core::num) ------------------------------
SizeOf(w) == 2 * Len(w)

Reverse(s) == [i \in 1..Len(s) |-> s[Len(s) + 1 - i]]

to_be_bytes(w) ==
  [i \in 1..SizeOf(w) |->
     LET j == SizeOf(w) - i
         d == w[(j \div 2) + 1]
     IN  IF j % 2 = 0 THEN d % 256 ELSE d \div 256]

\* byte i (0-based) is bits 8i..8i+7 of the word
to_le_bytes(w) ==
  [i \in 1..SizeOf(w) |->
     LET d == w[((i - 1) \div 2) + 1]
     IN  IF (i - 1) % 2 = 0 THEN d % 256 ELSE d \div 256]

from_le_bytes(b) == [k \in 1..(Len(b) \div 2) |-> b[2 * k - 1] + 256 * b[2 * k]]

from_be_bytes(b) == from_le_bytes(Reverse(b))

from_ne_bytes_le_only(b) == from_le_bytes(b)

from_ne_bytes(b) == IF bigEndian THEN from_be_bytes(b) ELSE from_le_bytes(b)

\* ---- slices ------------------------------------------------------------------
\* A buffer under modification: its bytes, the per-byte store counts and
\* whether a slice operation has panicked (nothing executes after a panic).
Mem(bytes) == [dest |-> bytes, writes |-> [i \in 1..Len(bytes) |-> 0], panicked |-> FALSE]

slice_last(arr, n) ==
  IF n <= Len(arr) THEN [ok |-> TRUE, s |-> SubSeq(arr, Len(arr) - n + 1, Len(arr))]
  ELSE [ok |-> FALSE, s |-> <<>>]

\* arr[..n]: panics when n exceeds the length
slice_to(arr, n) ==
  IF n <= Len(arr) THEN [ok |-> TRUE, s |-> SubSeq(arr, 1, n)]
  ELSE [ok |-> FALSE, s |-> <<>>]

\* target.copy_from_slice(bytes), target being the n bytes of m at offset off:
\* panics unless both have the same length
copy_from_slice(m, off, n, bytes) ==
  IF m.panicked THEN m
  ELSE IF Len(bytes) # n \/ off + n > Len(m.dest) THEN [m EXCEPT !.panicked = TRUE]
  ELSE [m EXCEPT
          !.dest = [i \in 1..Len(m.dest) |->
                      IF i > off /\ i <= off + n THEN bytes[i - off] ELSE m.dest[i]],
          !.writes = [i \in 1..Len(m.dest) |->
                      IF i > off /\ i <= off + n THEN m.writes[i] + 1 ELSE m.writes[i]]]

\* ---- fill_via_chunks! ---------------------------------------------------------
chunk_size_u8_ignoring_dst(srcLen, dstLen, SIZE) == srcLen * SIZE

chunk_size_u8(srcLen, dstLen, SIZE) == Min(srcLen * SIZE, dstLen)

chunk_size_floor(filled, SIZE) == filled \div SIZE

chunk_size(filled, SIZE) == (filled + SIZE - 1) \div SIZE

\* dst.chunks_exact_mut(SIZE): the number of whole chunks, and the remainder
\* as (offset, length)
chunks_exact_count(dstLen, SIZE) == dstLen \div SIZE

into_remainder(dstLen, SIZE) ==
  <<chunks_exact_count(dstLen, SIZE) * SIZE, dstLen % SIZE>>

\* the for loop over (&mut chunks).zip(&mut iter_src), from pair k on
RECURSIVE zip_loop(_, _, _, _)
zip_loop(m, s, SIZE, k) ==
  IF k >= chunks_exact_count(Len(m.dest), SIZE) \/ k >= Len(s) THEN [m |-> m, k |-> k]
  ELSE zip_loop(copy_from_slice(m, k * SIZE, SIZE, to_le_bytes(s[k + 1])), s, SIZE, k + 1)

fill_via_chunks(s, dst, SIZE) ==
  LET f == chunk_size_u8(Len(s), Len(dst), SIZE)
      c == chunk_size(f, SIZE)
      z == zip_loop(Mem(dst), s, SIZE, 0)
      rem == into_remainder(Len(dst), SIZE)
      hasNext == z.k < Len(s)
      sl == IF hasNext THEN slice_to(to_le_bytes(s[z.k + 1]), rem[2])
            ELSE [ok |-> TRUE, s |-> <<>>]
      m1 == IF ~hasNext THEN z.m
            ELSE IF ~sl.ok THEN [z.m EXCEPT !.panicked = TRUE]
            ELSE copy_from_slice(z.m, rem[1], rem[2], sl.s)
  IN  [ret |-> <<c, f>>, m |-> m1,
       reads |-> {i \in 0..(Len(s) - 1) : i < z.k \/ (hasNext /\ i = z.k)}]

fill_via_u32_chunks(s, dst) == fill_via_chunks(s, dst, 4)

fill_via_u64_chunks(s, dst) == fill_via_chunks(s, dst, 8)

IsU32Slice(s) == \A i \in 1..Len(s) : Len(s[i]) = 2
IsU64Slice(s) == \A i \in 1..Len(s) : Len(s[i]) = 4

\* ---- the generator (an implementor of RngCore) --------------------------------
\* The generator cycles through the words of tape; every method call is one
\* word production.
rng_word(r) == tape[(r % TapeLen) + 1]

\* `as u32`: the low 32 bits
as_u32(w) == SubSeq(w, 1, 2)

rng_next_u64(r) == [val |-> rng_word(r), rng |-> r + 1]

rng_next_u32(r) == [val |-> as_u32(rng_word(r)), rng |-> r + 1]

\* fill_bytes on a buffer of n <= 8 bytes stores the first n bytes of the word
rng_fill_bytes(r, n) == [val |-> SubSeq(to_le_bytes(rng_word(r)), 1, n), rng |-> r + 1]

Call(fn, len, val) == [fn |-> fn, len |-> len, val |-> val]

\* ---- next_u64_via_u32 -----------------------------------------------------------
u64_from(x) == x \o <<0, 0>>

RECURSIVE BitOr(_, _)
BitOr(a, b) ==
  IF a = 0 THEN b
  ELSE IF b = 0 THEN a
  ELSE (IF a % 2 = 1 \/ b % 2 = 1 THEN 1 ELSE 0) + 2 * BitOr(a \div 2, b \div 2)

\* y << 32 on a u64: the high 32 bits are shifted out
shl32(y) == [k \in 1..4 |-> IF k > 2 THEN y[k - 2] ELSE 0]

or64(a, b) == [k \in 1..4 |-> BitOr(a[k], b[k])]

compose_swapped(x, y) == or64(shl32(x), y)

\* (y << 32) | x
compose(x, y) == or64(shl32(y), x)

next_u64_via_u32(r) ==
  LET a == rng_next_u32(r)
      x == u64_from(a.val)
      b == rng_next_u32(a.rng)
      y == u64_from(b.val)
  IN  [ret |-> compose(x, y), rng |-> b.rng,
       calls |-> <<Call("next_u32", 4, a.val), Call("next_u32", 4, b.val)>>]

\* ---- fill_bytes_via_next ----------------------------------------------------------
\* { left }.split_at_mut(8): panics when left is shorter than 8 bytes
split_at_mut_ok(leftLen, mid) == mid <= leftLen

\* the while loop; s.left is the offset of `left` in dest
RECURSIVE fill_loop(_)
fill_loop(s) ==
  IF s.m.panicked \/ ~(Len(s.m.dest) - s.left >= 8) THEN s
  ELSE IF ~split_at_mut_ok(Len(s.m.dest) - s.left, 8)
       THEN [s EXCEPT !.m.panicked = TRUE]
  ELSE LET d == rng_next_u64(s.rng)
           chunk == to_le_bytes(d.val)
       IN  fill_loop([left |-> s.left + 8,
                      m |-> copy_from_slice(s.m, s.left, 8, chunk),
                      rng |-> d.rng,
                      calls |-> Append(s.calls, Call("next_u64", 8, d.val))])

tail_draw_u64_from_4(n) == IF n >= 4 THEN "next_u64" ELSE IF n > 0 THEN "next_u32" ELSE "none"

tail_draw_u32_up_to_5(n) == IF n > 5 THEN "next_u64" ELSE IF n > 0 THEN "next_u32" ELSE "none"

\* which word the remaining n bytes are taken from
tail_draw(n) == IF n > 4 THEN "next_u64" ELSE IF n > 0 THEN "next_u32" ELSE "none"

fill_tail(s) ==
  LET n == Len(s.m.dest) - s.left
      t == tail_draw(n)
      d == IF t = "next_u64" THEN rng_next_u64(s.rng) ELSE rng_next_u32(s.rng)
      sl == slice_to(to_le_bytes(d.val), n)
  IN  IF s.m.panicked \/ t = "none" THEN s
      ELSE [left |-> s.left,
            m |-> IF sl.ok THEN copy_from_slice(s.m, s.left, n, sl.s)
                  ELSE [s.m EXCEPT !.panicked = TRUE],
            rng |-> d.rng,
            calls |-> Append(s.calls, Call(t, SizeOf(d.val), d.val))]

fill_bytes_via_next(r, dst) ==
  fill_tail(fill_loop([left |-> 0, m |-> Mem(dst), rng |-> r, calls |-> <<>>]))

\* ---- next_u32_via_fill / next_u64_via_fill ------------------------------------------
next_via_fill(r, n) ==
  LET buf == [i \in 1..n |-> 0]
      f == rng_fill_bytes(r, Len(buf))
  IN  [ret |-> from_ne_bytes(f.val), rng |-> f.rng, buf |-> f.val,
       calls |-> <<Call("fill_bytes", Len(buf), f.val)>>]

next_u32_via_fill(r) == next_via_fill(r, 4)

next_u64_via_fill(r) == next_via_fill(r, 8)

\* ---- the calls ------------------------------------------------------------------------
NoHist == [stream |-> <<>>, index0 |-> 0, rets |-> <<>>]

Inputs ==
  /\ bigEndian \in BOOLEAN
  /\ tape \in [1..TapeLen -> U64Vals]
  /\ src \in BSeq(U32Vals, MaxSrc) \cup BSeq(U64Vals, MaxSrc)
  /\ dest0 \in UNION { [1..n -> DestVals] : n \in 0..MaxDest }

Init ==
  /\ Inputs
  /\ pc = "start" /\ op = "none"
  /\ rng = 0 /\ calls = <<>>
  /\ dest = dest0
  /\ writes = [i \in 1..Len(dest0) |-> 0]
  /\ reads = {}
  /\ ret = <<>>
  /\ panicked = FALSE
  /\ rsl = <<>> /\ index = 0 /\ read_len = 0 /\ hist = NoHist

Inputs_unch == UNCHANGED <<bigEndian, tape, src, dest0>>
Block_unch == UNCHANGED <<rsl, index, read_len, hist>>

NextU64ViaU32 ==
  /\ pc = "start"
  /\ LET r == next_u64_via_u32(rng)
     IN  /\ ret' = r.ret /\ rng' = r.rng /\ calls' = r.calls
  /\ pc' = "done" /\ op' = "next_u64_via_u32"
  /\ UNCHANGED <<dest, writes, reads, panicked>>
  /\ Inputs_unch /\ Block_unch

FillBytesViaNext ==
  /\ pc = "start"
  /\ LET r == fill_bytes_via_next(rng, dest)
     IN  /\ dest' = r.m.dest /\ writes' = r.m.writes /\ panicked' = r.m.panicked
         /\ rng' = r.rng /\ calls' = r.calls
  /\ pc' = "done" /\ op' = "fill_bytes_via_next"
  /\ UNCHANGED <<reads, ret>>
  /\ Inputs_unch /\ Block_unch

FillViaChunks(name, r) ==
  /\ dest' = r.m.dest /\ writes' = r.m.writes /\ panicked' = r.m.panicked
  /\ reads' = r.reads /\ ret' = r.ret
  /\ pc' = "done" /\ op' = name
  /\ UNCHANGED <<rng, calls>>
  /\ Inputs_unch /\ Block_unch

FillViaU32Chunks ==
  /\ pc = "start" /\ IsU32Slice(src)
  /\ FillViaChunks("fill_via_u32_chunks", fill_via_u32_chunks(src, dest))

FillViaU64Chunks ==
  /\ pc = "start" /\ IsU64Slice(src)
  /\ FillViaChunks("fill_via_u64_chunks", fill_via_u64_chunks(src, dest))

NextViaFill(name, r) ==
  /\ ret' = r.ret /\ rng' = r.rng /\ calls' = r.calls
  /\ pc' = "done" /\ op' = name
  /\ UNCHANGED <<dest, writes, reads, panicked>>
  /\ Inputs_unch /\ Block_unch

NextU32ViaFill == pc = "start" /\ NextViaFill("next_u32_via_fill", next_u32_via_fill(rng))

NextU64ViaFill == pc = "start" /\ NextViaFill("next_u64_via_fill", next_u64_via_fill(rng))

Next ==
  \/ NextU64ViaU32
  \/ FillBytesViaNext
  \/ FillViaU32Chunks
  \/ FillViaU64Chunks
  \/ NextU32ViaFill
  \/ NextU64ViaFill

Spec == Init /\ [][Next]_vars

\* ---- a block RNG's fill_bytes (the documented use of fill_via_u32_chunks) -----------
\* self.isaac(): generates the next block and resets the read cursor
isaac(r, B) ==
  [rsl |-> [i \in 1..B |-> as_u32(rng_word(r + i - 1))], index |-> 0, rng |-> r + B]

\* arr[n..]: panics when n exceeds the length
slice_from_ok(arr, n) == n <= Len(arr)

\* before fill_bytes is called: no generator and no destination chosen yet
BlockInit ==
  /\ pc = "start" /\ op = "none"
  /\ bigEndian = FALSE
  /\ tape = [i \in 1..TapeLen |-> <<1, 0, 0, 0>>]
  /\ src = <<>> /\ dest0 = <<>> /\ dest = <<>> /\ writes = <<>>
  /\ rng = 0 /\ calls = <<>> /\ reads = {} /\ ret = <<>>
  /\ panicked = FALSE
  /\ rsl = <<>> /\ index = 0 /\ read_len = 0 /\ hist = NoHist

\* fill_bytes(&mut self, dest) is entered, on a generator whose block is b and
\* whose read cursor is i: `let mut read_len = 0`
BlockEnter ==
  /\ pc = "start"
  /\ \E b \in BSeq(U32Vals, MaxBlock) \ {<<>>},
        d \in UNION { [1..n -> DestVals] : n \in 0..MaxBlockDest },
        t \in [1..TapeLen -> U64Vals] :
       \E i \in 0..Len(b) :
         /\ src' = b /\ rsl' = b /\ index' = i
         /\ dest0' = d /\ dest' = d /\ writes' = [j \in 1..Len(d) |-> 0]
         /\ tape' = t
         /\ hist' = [stream |-> b, index0 |-> i, rets |-> <<>>]
  /\ read_len' = 0
  /\ pc' = "loop" /\ op' = "fill_bytes"
  /\ UNCHANGED <<bigEndian, rng, calls, reads, ret, panicked>>

\* one iteration of `while read_len < dest.len()`
IterResult(g) ==
  LET s == SubSeq(g.rsl, g.index + 1, Len(g.rsl))
      d == SubSeq(dest, read_len + 1, Len(dest))
  IN  [ok |-> slice_from_ok(g.rsl, g.index) /\ slice_from_ok(dest, read_len),
       srcLen |-> Len(s), dstLen |-> Len(d),
       r |-> fill_via_u32_chunks(s, d)]

BlockIter ==
  /\ pc = "loop" /\ ~panicked
  /\ read_len < Len(dest)
  /\ \E g \in {IF index >= Len(rsl) THEN isaac(rng, Len(rsl))
               ELSE [rsl |-> rsl, index |-> index, rng |-> rng]} :
       \E c \in {IterResult(g)} :
         /\ rsl' = g.rsl /\ rng' = g.rng
         /\ IF c.ok
            THEN /\ dest' = SubSeq(dest, 1, read_len) \o c.r.m.dest
                 /\ writes' = [i \in 1..Len(dest) |->
                                 IF i > read_len THEN writes[i] + c.r.m.writes[i - read_len]
                                 ELSE writes[i]]
                 /\ panicked' = c.r.m.panicked
                 /\ index' = g.index + c.r.ret[1]
                 /\ read_len' = read_len + c.r.ret[2]
                 /\ hist' = [hist EXCEPT
                      !.stream = IF index >= Len(rsl) THEN @ \o g.rsl ELSE @,
                      !.rets = Append(@, [consumed |-> c.r.ret[1], filled |-> c.r.ret[2],
                                          srcLen |-> c.srcLen, dstLen |-> c.dstLen])]
            ELSE /\ panicked' = TRUE
                 /\ UNCHANGED <<dest, writes, index, read_len, hist>>
  /\ UNCHANGED <<pc, op, calls, reads, ret>>
  /\ Inputs_unch

\* the loop condition fails: fill_bytes returns
BlockReturn ==
  /\ pc = "loop" /\ ~panicked
  /\ ~(read_len < Len(dest))
  /\ pc' = "done"
  /\ UNCHANGED <<op, rng, calls, dest, writes, reads, ret, panicked, rsl, index, read_len, hist>>
  /\ Inputs_unch

BlockNext == BlockEnter \/ BlockIter \/ BlockReturn

\* the loop is sequential code: an iteration that can run does run
BlockSpec == BlockInit /\ [][BlockNext]_vars /\ WF_vars(BlockIter \/ BlockReturn)

\* ---- properties -----------------------------------------------------------------------
\* What the properties mean by the little-endian encoding: byte k (0-based) of
\* word w is bits 8k..8k+7 of its value.
Pow256(e) == IF e = 0 THEN 1 ELSE 256
LeByte(w, k) == (w[(k \div 2) + 1] \div Pow256(k % 2)) % 256
CeilDiv(a, b) == IF a % b = 0 THEN a \div b ELSE (a \div b) + 1

ChunkCall == pc = "done" /\ op \in {"fill_via_u32_chunks", "fill_via_u64_chunks"}
W == IF op = "fill_via_u64_chunks" THEN 8 ELSE 4

\* the source words (0-based) of which at least one byte was stored in dest
WordsWritten(size) == {(i - 1) \div size : i \in {j \in 1..Len(dest) : writes[j] > 0}}

\* C1: fill_via_u32_chunks / fill_via_u64_chunks return (c, f) with
\* f = min(D, len(src) * W) and c = ceil(f / W); so f <= D, f <= len(src) * W,
\* c <= len(src), and c is the number of source words of which at least one
\* byte was written to dest.
C1_ReturnValue ==
  ChunkCall =>
    LET c == ret[1]
        f == ret[2]
    IN  /\ f = (IF Len(dest) < Len(src) * W THEN Len(dest) ELSE Len(src) * W)
        /\ c = CeilDiv(f, W)
        /\ f <= Len(dest) /\ f <= Len(src) * W /\ c <= Len(src)
        /\ WordsWritten(W) = 0..(c - 1)

C1_Witness ==
  /\ ChunkCall
  /\ Len(src) = 3 /\ Len(dest) = 5 /\ ret = <<2, 5>>

\* C2: after the call, dest[i] for i < f is byte (i mod W) of the little-endian
\* encoding of src[i div W], and dest[i] for f <= i < D holds the value it had
\* before the call; a final word that only partly fits contributes its
\* low-order prefix.
C2_DestContents ==
  ChunkCall =>
    \A i \in 0..(Len(dest) - 1) :
      IF i < ret[2]
      THEN dest[i + 1] = LeByte(src[(i \div W) + 1], i % W)
      ELSE dest[i + 1] = dest0[i + 1] /\ writes[i + 1] = 0

C2_Witness ==
  /\ ChunkCall
  /\ op = "fill_via_u64_chunks" /\ Len(dest) = 11 /\ ret = <<2, 11>>
  /\ dest = <<1, 0, 0, 0, 0, 0, 0, 0, 1, 2, 3>>

BytesCall == pc = "done" /\ op = "fill_bytes_via_next"

\* C3: fill_bytes_via_next writes every destination byte exactly once, and the
\* buffer is the concatenation, in the order the words were drawn, of the
\* little-endian encodings of the drawn words, only the last being truncated.
C3_FillBytes ==
  BytesCall =>
    /\ Len(calls) = CeilDiv(Len(dest), 8)
    /\ \A k \in 1..Len(calls) :
         calls[k].val = (IF calls[k].fn = "next_u64" THEN tape[((k - 1) % TapeLen) + 1]
                         ELSE SubSeq(tape[((k - 1) % TapeLen) + 1], 1, 2))
    /\ \A i \in 0..(Len(dest) - 1) :
         /\ writes[i + 1] = 1
         /\ dest[i + 1] = LeByte(calls[(i \div 8) + 1].val, i % 8)

C3_Witness ==
  /\ BytesCall
  /\ Len(dest) = 13
  /\ dest = <<1, 0, 0, 0, 0, 0, 0, 0, 1, 2, 3, 136, 5>>

\* C4: with r = N mod 8, fill_bytes_via_next calls next_u64 floor(N/8) times,
\* then one more next_u64 if r > 4, one next_u32 if 1 <= r <= 4, nothing if
\* r = 0; next_u32 is called at most once and last, and no word is drawn
\* unless one of its bytes is stored.
C4_Draws ==
  BytesCall =>
    LET N == Len(dest)
        q == N \div 8
        r == N % 8
    IN  /\ Len(calls) = q + (IF r = 0 THEN 0 ELSE 1)
        /\ rng = Len(calls)
        /\ \A k \in 1..q : calls[k].fn = "next_u64"
        /\ r > 4 => calls[q + 1].fn = "next_u64"
        /\ (r >= 1 /\ r <= 4) => calls[q + 1].fn = "next_u32"
        /\ \A k \in 1..Len(calls) :
             /\ calls[k].fn = "next_u32" => k = Len(calls)
             /\ 8 * (k - 1) < N /\ writes[8 * (k - 1) + 1] > 0

C4_Witness ==
  /\ BytesCall
  /\ Len(dest) = 12
  /\ Len(calls) = 2 /\ calls[1].fn = "next_u64" /\ calls[2].fn = "next_u32"

\* C5: next_u64_via_u32 calls next_u32 exactly twice, one after the other,
\* and with first result a and second result b returns (b << 32) | a; the
\* generator is advanced by two word productions and nothing else.
C5_NextU64ViaU32 ==
  (pc = "done" /\ op = "next_u64_via_u32") =>
    LET a == SubSeq(tape[1], 1, 2)
        b == SubSeq(tape[(1 % TapeLen) + 1], 1, 2)
    IN  /\ Len(calls) = 2
        /\ calls[1].fn = "next_u32" /\ calls[1].val = a
        /\ calls[2].fn = "next_u32" /\ calls[2].val = b
        /\ ret = <<a[1], a[2], b[1], b[2]>>
        /\ rng = 2

C5_Witness ==
  /\ pc = "done" /\ op = "next_u64_via_u32"
  /\ ret = <<1, 0, 513, 34819>>

ViaFillCall == pc = "done" /\ op \in {"next_u32_via_fill", "next_u64_via_fill"}
LeDecode(b) == [k \in 1..(Len(b) \div 2) |-> b[2 * k - 1] + 256 * b[2 * k]]
BeDecode(b) == [k \in 1..(Len(b) \div 2) |-> b[Len(b) - 2 * k + 2] + 256 * b[Len(b) - 2 * k + 1]]

\* C6: next_u32_via_fill and next_u64_via_fill return, on every platform, the
\* little-endian decoding of the bytes fill_bytes stored: buf[0] is the least
\* significant byte of the result.
C6_LittleEndianOnEveryPlatform ==
  ViaFillCall => ret = LeDecode(calls[1].val)

C8_NoSourceAccess ==
  (ChunkCall /\ Len(dest0) = 0) =>
    /\ ret = <<0, 0>>
    /\ dest = dest0
    /\ reads = {}

\* C8 as amended: for a zero-length destination and any source, the chunk
\* functions return (0, 0) and modify no destination byte; an empty source is
\* not accessed, and of a non-empty source exactly the first element is read
\* (none of its bytes is copied and it is not counted as consumed).
C8_ZeroLengthDest ==
  (ChunkCall /\ Len(dest0) = 0) =>
    /\ ret = <<0, 0>>
    /\ dest = dest0
    /\ reads = (IF Len(src) = 0 THEN {} ELSE {0})

C8_Witness ==
  /\ ChunkCall /\ Len(dest0) = 0 /\ Len(src) = 2
  /\ ret = <<0, 0>> /\ reads = {0}

\* C9: no call of a helper panics or indexes out of bounds, for any source
\* length and any destination length including zero.
C9_NoPanic == ~panicked

C9_Witness ==
  /\ pc = "done" /\ ~panicked
  /\ \/ op = "fill_via_u64_chunks" /\ Len(src) = 1 /\ Len(dest) = 3 /\ writes = <<1, 1, 1>>
     \/ op = "fill_bytes_via_next" /\ Len(dest) = 5 /\ writes = <<1, 1, 1, 1, 1>>

\* the words consumed so far are consecutive words of the generated stream
BlockCursor == (Len(hist.stream) - Len(rsl)) + index

BlockInv ==
  /\ ~panicked
  /\ index <= Len(rsl) /\ read_len <= Len(dest)
  /\ \A k \in 1..Len(hist.rets) :
       /\ hist.rets[k].srcLen >= 1 /\ hist.rets[k].dstLen >= 1
       /\ hist.rets[k].consumed >= 1 /\ hist.rets[k].filled >= 1
       /\ hist.rets[k].filled % 4 # 0 => (k = Len(hist.rets) /\ read_len = Len(dest))
  /\ pc = "done" => read_len = Len(dest)
  /\ BlockCursor = hist.index0 + CeilDiv(read_len, 4)
  /\ \A i \in 0..(Len(dest) - 1) :
       IF i < read_len
       THEN dest[i + 1] = LeByte(hist.stream[hist.index0 + (i \div 4) + 1], i % 4)
            /\ writes[i + 1] = 1
       ELSE dest[i + 1] = dest0[i + 1] /\ writes[i + 1] = 0

\* C10: the block-RNG fill loop terminates for every block length >= 1, every
\* destination length and every starting index in 0..=B: every call has a
\* non-empty source and destination and returns consumed >= 1 and filled >= 1,
\* index <= B, read_len <= dest.len(), the loop ends with read_len = dest.len(),
\* a word is partially copied only in the last iteration, and the bytes are the
\* little-endian encodings of consecutively consumed words.
C10_BlockFill == [](BlockInv) /\ ((pc = "loop") ~> (pc = "done"))

C10_Witness ==
  /\ pc = "done" /\ op = "fill_bytes"
  /\ Len(rsl) = 2 /\ hist.index0 = 1 /\ Len(dest) = 9
  /\ Len(hist.stream) = 4 /\ Len(hist.rets) = 2
  /\ hist.rets[2].consumed = 2 /\ hist.rets[2].filled = 5

====
